---- MODULE Spec2Model ----
(***************************************************************************)
(* A model of main.py, the poker equity calculator: the hand classifier    *)
(* (get_best_hand and its ten detectors), the comparator (compare_hands),  *)
(* the evaluation cache (CACHE, SHOULD_WRITE_CACHE, load_table,            *)
(* store_tables) and main with its validation and aggregation loop.        *)
(*                                                                         *)
(* A card is the index of its token in the enumeration                     *)
(*   CARDS = {c + s for s in SUITS for c in CARDINALITIES},                *)
(* so card \div 13 is the position of its suit in SUITS (h, d, s, c) and   *)
(* card % 13 the position of its cardinality in CARDINALITIES (2 .. A).    *)
(* A Python list is a sequence, None is the empty sequence (the code only  *)
(* tests results for truthiness, and no detector returns an empty list).   *)
(***************************************************************************)
EXTENDS Integers, Sequences, FiniteSets, TLC

VARIABLES
  pc,                  \* position of the run
  cards,               \* the list last handed to get_best_hand / get_straight
  ret,                 \* what that call returned
  CACHE,               \* global CACHE: key -> {"id", "cards"}
  SHOULD_WRITE_CACHE,  \* global SHOULD_WRITE_CACHE
  loaded,              \* what load_table read (history)
  first,               \* key -> the first get_best_hand call on it: its cards and its record (history)
  table,               \* the content of ./db/table.json
  lhs_hand,            \* the two hands handed to compare_hands
  rhs_hand,
  compared,            \* what compare_hands returned
  argc,                \* len(sys.argv)
  config,              \* the JSON object of the config file: its (key, values) items in order
  exit_code,           \* how the process ended: "" while it runs, then "exit(1)", ...
  alive,               \* main's alive, in its iteration order
  players,             \* main's players, in dict order: position, hand, wins, ties
  outcomes,            \* main's outcomes
  tied,                \* the outcomes counted with more than one winner (history)
  comb,                \* the indices into alive of the combination the loop yields next
  result,              \* main's result
  reported,            \* the equities printed, None before
  message              \* the error message printed, "" before

vars == <<pc, cards, ret, CACHE, SHOULD_WRITE_CACHE, loaded, first, table,
          lhs_hand, rhs_hand, compared,
          argc, config, exit_code, alive, players, outcomes, tied, comb, result,
          reported, message>>

call_vars == <<cards, ret, first>>

cache_vars == <<CACHE, SHOULD_WRITE_CACHE, loaded, table>>

cmp_vars == <<lhs_hand, rhs_hand, compared>>

main_vars == <<argc, config, exit_code, alive, players, outcomes, tied, comb,
               result, reported, message>>

None == <<>>

\* ---------------------------------------------------------------- cards

NumCardinalities == 13
NumSuits == 4

CARDS == 0 .. (NumCardinalities * NumSuits - 1)

\* card[0] looked up in CARDINALITIES
get_cardinality_strength(card) == card % NumCardinalities

\* card[1] looked up in SUITS
SuitOf(card) == card \div NumCardinalities

Two == 0
Three == 1
Four == 2
Five == 3
Six == 4
Seven == 5
Eight == 6
Nine == 7
Ten == 8
Jack == 9
Queen == 10
King == 11
Ace == 12

Hearts == 0
Diamonds == 1
Spades == 2
Clubs == 3

\* The card of a cardinality and a suit: the token c + s.
Card(k, u) == u * NumCardinalities + k

ROYAL_FLUSH == 10
STRAIGHT_FLUSH == 9
QUADS == 8
FULL_HOUSE == 7
FLUSH == 6
STRAIGHT == 5
THREE_OF_KIND == 4
TWO_PAIR == 3
PAIR == 2
HIGH_CARD == 1

\* ---------------------------------------------------------------- lists and sets

Range(s) == {s[i] : i \in DOMAIN s}

Min(a, b) == IF a < b THEN a ELSE b

Prefix(s, n) == SubSeq(s, 1, Min(n, Len(s)))

\* x put into a list already sorted by descending strength, after every card at
\* least as strong: sorted() is stable.
RECURSIVE InsertByStrength(_, _)
InsertByStrength(s, x) ==
  IF s = <<>> THEN <<x>>
  ELSE IF get_cardinality_strength(Head(s)) >= get_cardinality_strength(x)
       THEN <<Head(s)>> \o InsertByStrength(Tail(s), x)
       ELSE <<x>> \o s

\* sorted(cards, key=lambda card: -get_cardinality_strength(card[0]))
RECURSIVE SortByStrength(_)
SortByStrength(s) ==
  IF s = <<>> THEN <<>>
  ELSE InsertByStrength(SortByStrength(SubSeq(s, 1, Len(s) - 1)), s[Len(s)])

\* list(set(...)): the iteration order of a set of strings is not specified (it
\* changes with the hash seed), so every enumeration of the set is possible.
RECURSIVE ListsOf(_)
ListsOf(S) ==
  IF S = {} THEN {<<>>}
  ELSE UNION {{<<x>> \o l : l \in ListsOf(S \ {x})} : x \in S}

\* ---------------------------------------------------------------- detectors

\* The cardinalities with exactly n cards in the list.
CardinalitiesWithCount(s, n) ==
  {k \in 0 .. (NumCardinalities - 1) :
     Cardinality({i \in DOMAIN s : get_cardinality_strength(s[i]) = k}) = n}

SetMax(S) == CHOOSE x \in S : \A y \in S : y <= x

CardsOfCardinality(s, k) ==
  SelectSeq(s, LAMBDA c : get_cardinality_strength(c) = k)

\* get_n_of_kind: the cards (in list order) of the strongest cardinality that
\* occurs exactly n times, or None.
get_n_of_kind(s, n) ==
  LET ks == CardinalitiesWithCount(s, n)
  IN IF ks = {} THEN None ELSE CardsOfCardinality(s, SetMax(ks))

\* get_high_card
get_high_card(s) == Prefix(SortByStrength(s), Min(5, Len(s)))

\* The detectors that go through list(set(...)) have one result per iteration
\* order; each of these operators is the set of the results the call can
\* return, and the empty set stands for None.
Results(x) == IF x = None THEN {} ELSE {x}

\* sorted(list(S), key=...): the sort is stable, so cards of equal strength keep
\* the set's iteration order; the possible results are the enumerations of S by
\* descending strength.
RECURSIVE SortedListsOf(_)
SortedListsOf(S) ==
  IF S = {} THEN {<<>>}
  ELSE LET top == SetMax({get_cardinality_strength(c) : c \in S})
       IN UNION {{<<x>> \o l : l \in SortedListsOf(S \ {x})} :
                   x \in {c \in S : get_cardinality_strength(c) = top}}

\* get_high_card(list(S))
high_card_of_set(S) == {Prefix(l, 5) : l \in SortedListsOf(S)}

\* get_n_of_kind(list(S), n): the cards of the chosen cardinality come in the
\* set's iteration order.
n_of_kind_of_set(S, n) ==
  LET ks == {k \in 0 .. (NumCardinalities - 1) :
               Cardinality({c \in S : get_cardinality_strength(c) = k}) = n}
  IN IF ks = {} THEN {}
     ELSE ListsOf({c \in S : get_cardinality_strength(c) = SetMax(ks)})

get_pair(s) ==
  LET maybe_pair == get_n_of_kind(s, 2)
  IN IF maybe_pair = None THEN {}
     ELSE {maybe_pair \o kickers :
             kickers \in high_card_of_set(Range(s) \ Range(maybe_pair))}

get_two_pair(s) ==
  LET maybe_first_pair == get_n_of_kind(s, 2)
      remaining_cards == Range(s) \ Range(maybe_first_pair)
  IN IF maybe_first_pair = None THEN {}
     ELSE UNION {
       {maybe_first_pair \o maybe_second_pair \o <<kickers[1]>> :
          kickers \in high_card_of_set(remaining_cards \ Range(maybe_second_pair))}
       : maybe_second_pair \in n_of_kind_of_set(remaining_cards, 2)}

get_three_of_kind(s) ==
  LET maybe_triple == get_n_of_kind(s, 3)
  IN IF maybe_triple = None THEN {}
     ELSE {maybe_triple \o Prefix(kickers, 2) :
             kickers \in high_card_of_set(Range(s) \ Range(maybe_triple))}

get_full_house(s) ==
  LET maybe_triple == get_n_of_kind(s, 3)
  IN IF maybe_triple = None THEN {}
     ELSE {maybe_triple \o maybe_pair :
             maybe_pair \in n_of_kind_of_set(Range(s) \ Range(maybe_triple), 2)}

get_quads(s) ==
  LET maybe_quads == get_n_of_kind(s, 4)
  IN IF maybe_quads = None THEN {}
     ELSE {maybe_quads \o <<kickers[1]>> :
             kickers \in high_card_of_set(Range(s) \ Range(maybe_quads))}

\* The suits of a list in the order of their first card: the insertion order of
\* the dicts suit_freqs and suit_groups.
RECURSIVE SuitsInOrder(_)
SuitsInOrder(s) ==
  IF s = <<>> THEN <<>>
  ELSE LET rest == SuitsInOrder(SubSeq(s, 1, Len(s) - 1))
           u == SuitOf(s[Len(s)])
       IN IF u \in Range(rest) THEN rest ELSE Append(rest, u)

SuitGroup(s, u) == SelectSeq(s, LAMBDA c : SuitOf(c) = u)

\* get_flush: the first suit group, in insertion order, that holds exactly 5 cards.
get_flush(s) ==
  LET sorted_cards == SortByStrength(s)
      suits == SuitsInOrder(sorted_cards)
      hits == {i \in DOMAIN suits : Len(SuitGroup(sorted_cards, suits[i])) = 5}
  IN IF hits = {} THEN None
     ELSE SuitGroup(sorted_cards, suits[CHOOSE i \in hits : \A j \in hits : i <= j])

\* The loop of get_straight with the guard of its reset left out: a gap drops
\* the run even when it already holds a straight.
RECURSIVE StraightScanAlwaysResets(_, _, _)
StraightScanAlwaysResets(sorted_cards, i, made_straight) ==
  IF i > Len(sorted_cards) THEN made_straight
  ELSE LET gap == get_cardinality_strength(sorted_cards[i - 1])
                  - get_cardinality_strength(sorted_cards[i])
       IN StraightScanAlwaysResets(sorted_cards, i + 1,
            IF gap = 0 THEN made_straight
            ELSE IF gap = 1 THEN Append(made_straight, sorted_cards[i])
            ELSE <<sorted_cards[i]>>)

\* The loop of get_straight from index i (1-based) on.
RECURSIVE StraightScan(_, _, _)
StraightScan(sorted_cards, i, made_straight) ==
  IF i > Len(sorted_cards) THEN made_straight
  ELSE LET gap == get_cardinality_strength(sorted_cards[i - 1])
                  - get_cardinality_strength(sorted_cards[i])
       IN StraightScan(sorted_cards, i + 1,
            IF gap = 0 THEN made_straight
            ELSE IF gap = 1 THEN Append(made_straight, sorted_cards[i])
            ELSE IF Len(made_straight) < 5 THEN <<sorted_cards[i]>>
            ELSE made_straight)

\* get_straight, for a non-empty list
get_straight(s) ==
  LET sorted_cards == SortByStrength(s)
      scanned == StraightScan(sorted_cards, 2, <<sorted_cards[1]>>)
      made_straight ==
        IF /\ get_cardinality_strength(sorted_cards[Len(sorted_cards)]) = Two
           /\ get_cardinality_strength(sorted_cards[1]) = Ace
        THEN Append(scanned, sorted_cards[1])
        ELSE scanned
  IN IF Len(made_straight) >= 5 THEN SubSeq(made_straight, 1, 5) ELSE None

\* get_straight_flush: the straight of the first suit group, in insertion order,
\* that has one.
get_straight_flush(s) ==
  LET suits == SuitsInOrder(s)
      hits == {i \in DOMAIN suits : get_straight(SuitGroup(s, suits[i])) # None}
  IN IF hits = {} THEN None
     ELSE get_straight(SuitGroup(s, suits[CHOOSE i \in hits : \A j \in hits : i <= j]))

get_royal_flush(s) ==
  LET maybe_straight_flush == get_straight_flush(s)
  IN IF maybe_straight_flush = None THEN None
     ELSE IF get_cardinality_strength(maybe_straight_flush[1]) = Ace
          THEN maybe_straight_flush
          ELSE None

\* HANDS[id]["calc"](cards), as the set of its possible results
Calc(id, s) ==
  CASE id = ROYAL_FLUSH -> Results(get_royal_flush(s))
    [] id = STRAIGHT_FLUSH -> Results(get_straight_flush(s))
    [] id = QUADS -> get_quads(s)
    [] id = FULL_HOUSE -> get_full_house(s)
    [] id = FLUSH -> Results(get_flush(s))
    [] id = STRAIGHT -> Results(get_straight(s))
    [] id = THREE_OF_KIND -> get_three_of_kind(s)
    [] id = TWO_PAIR -> get_two_pair(s)
    [] id = PAIR -> get_pair(s)
    [] id = HIGH_CARD -> Results(get_high_card(s))

\* HANDS[id]["tiebreakers"], as 1-based indices
Tiebreakers(id) ==
  CASE id = ROYAL_FLUSH -> <<>>
    [] id = STRAIGHT_FLUSH -> <<>>
    [] id = QUADS -> <<1, 5>>
    [] id = FULL_HOUSE -> <<1, 4>>
    [] id = FLUSH -> <<1>>
    [] id = STRAIGHT -> <<1>>
    [] id = THREE_OF_KIND -> <<1, 4, 5>>
    [] id = TWO_PAIR -> <<1, 3, 5>>
    [] id = PAIR -> <<1, 3, 4, 5>>
    [] id = HIGH_CARD -> <<1, 2, 3, 4, 5>>

\* The loop of get_best_hand over HANDS, from category id downwards: the records
\* the first succeeding detector can produce (none when every detector fails:
\* the assert False).
RECURSIVE Classify(_, _)
Classify(id, s) ==
  IF id < HIGH_CARD THEN {}
  ELSE LET hands == Calc(id, s)
       IN IF hands # {} THEN {[id |-> id, cards |-> h] : h \in hands}
          ELSE Classify(id - 1, s)

\* ---------------------------------------------------------------- the comparator

\* The loop of compare_hands over the tiebreakers, from the j-th on.
RECURSIVE CompareTiebreakers(_, _, _, _)
CompareTiebreakers(lhs, rhs, tiebreakers, j) ==
  IF j > Len(tiebreakers) THEN 0
  ELSE LET gap == get_cardinality_strength(lhs.cards[tiebreakers[j]])
                  - get_cardinality_strength(rhs.cards[tiebreakers[j]])
       IN IF gap = 0 THEN CompareTiebreakers(lhs, rhs, tiebreakers, j + 1)
          ELSE IF gap > 0 THEN -1
          ELSE 1

\* compare_hands with the sign of the gap dropped: the first differing
\* tiebreaker always decides for lhs.
RECURSIVE CompareTiebreakersUnsigned(_, _, _, _)
CompareTiebreakersUnsigned(lhs, rhs, tiebreakers, j) ==
  IF j > Len(tiebreakers) THEN 0
  ELSE LET gap == get_cardinality_strength(lhs.cards[tiebreakers[j]])
                  - get_cardinality_strength(rhs.cards[tiebreakers[j]])
       IN IF gap = 0 THEN CompareTiebreakersUnsigned(lhs, rhs, tiebreakers, j + 1)
          ELSE -1

compare_hands_unsigned(lhs, rhs) ==
  IF lhs.id # rhs.id
  THEN IF lhs.id > rhs.id THEN -1 ELSE 1
  ELSE CompareTiebreakersUnsigned(lhs, rhs, Tiebreakers(lhs.id), 1)

\* compare_hands: -1 when lhs is the better hand, 1 when rhs is, 0 when neither.
compare_hands(lhs, rhs) ==
  IF lhs.id # rhs.id
  THEN IF lhs.id > rhs.id THEN -1 ELSE 1
  ELSE CompareTiebreakers(lhs, rhs, Tiebreakers(lhs.id), 1)

\* ---------------------------------------------------------------- the cache

\* The position of a card's token in the order of Python's string comparison:
\* "2" < ... < "9" < "A" < "J" < "K" < "Q" < "T", then "c" < "d" < "h" < "s".
TokenOrder(card) ==
  LET k == get_cardinality_strength(card)
      u == SuitOf(card)
      kpos == IF k <= 7 THEN k
              ELSE IF k = 12 THEN 8
              ELSE IF k = 9 THEN 9
              ELSE IF k = 11 THEN 10
              ELSE IF k = 10 THEN 11
              ELSE 12
      upos == IF u = 0 THEN 2 ELSE IF u = 1 THEN 1 ELSE IF u = 2 THEN 3 ELSE 0
  IN kpos * NumSuits + upos

RECURSIVE InsertByToken(_, _)
InsertByToken(s, x) ==
  IF s = <<>> THEN <<x>>
  ELSE IF TokenOrder(Head(s)) <= TokenOrder(x)
       THEN <<Head(s)>> \o InsertByToken(Tail(s), x)
       ELSE <<x>> \o s

\* ''.join(sorted(cards)): the tokens, two characters each, in string order.
RECURSIVE Key(_)
Key(s) ==
  IF s = <<>> THEN <<>>
  ELSE InsertByToken(Key(SubSeq(s, 1, Len(s) - 1)), s[Len(s)])

EmptyTable == [k \in {} |-> None]

\* CACHE[key] = value
Stored(cache, key, value) ==
  [k \in DOMAIN cache \cup {key} |-> IF k = key THEN value ELSE cache[k]]

\* get_best_hand without its lookup: every call classifies and stores.
BestHandWithoutLookup(cache, dirty, s) ==
  {[hand |-> hand, cache |-> Stored(cache, Key(s), hand), dirty |-> TRUE] :
     hand \in Classify(ROYAL_FLUSH, s)}

\* get_best_hand(s) on a cache and a dirty flag: what it can return, with the
\* cache and the flag it leaves. A hit returns the cached record and writes
\* nothing; a miss stores and returns the record of the first detector that
\* succeeds, and sets the flag.
BestHand(cache, dirty, s) ==
  IF Key(s) \in DOMAIN cache
  THEN {[hand |-> cache[Key(s)], cache |-> cache, dirty |-> dirty]}
  ELSE {[hand |-> hand, cache |-> Stored(cache, Key(s), hand), dirty |-> TRUE] :
          hand \in Classify(ROYAL_FLUSH, s)}

\* A call of get_best_hand(s) on the globals.
get_best_hand(s) ==
  \E o \in BestHand(CACHE, SHOULD_WRITE_CACHE, s) :
    /\ cards' = s
    /\ ret' = o.hand
    /\ CACHE' = o.cache
    /\ SHOULD_WRITE_CACHE' = o.dirty
    /\ first' = IF Key(s) \in DOMAIN first THEN first
                ELSE Stored(first, Key(s), [hand |-> o.hand, cards |-> s])

\* ---------------------------------------------------------------- the parts a specification leaves alone

NoCalls == cards = None /\ ret = None /\ first = EmptyTable

\* The globals CACHE and SHOULD_WRITE_CACHE exist only once load_table has run
\* (get_best_hand raises NameError before): the specifications that call
\* get_best_hand start after load_table has read an empty table.
NoCache ==
  /\ CACHE = EmptyTable
  /\ SHOULD_WRITE_CACHE = FALSE
  /\ loaded = EmptyTable
  /\ table = EmptyTable

NoCompare == lhs_hand = None /\ rhs_hand = None /\ compared = None

NoMain ==
  /\ argc = 0
  /\ config = None
  /\ exit_code = ""
  /\ alive = None
  /\ players = None
  /\ outcomes = 0
  /\ tied = 0
  /\ comb = None
  /\ result = None
  /\ reported = None
  /\ message = ""

\* ---------------------------------------------------------------- input lists

SetMin(S) == CHOOSE x \in S : \A y \in S : x <= y

RECURSIVE Ascending(_)
Ascending(S) ==
  IF S = {} THEN <<>> ELSE <<SetMin(S)>> \o Ascending(S \ {SetMin(S)})

Reverse(s) == [i \in 1 .. Len(s) |-> s[Len(s) + 1 - i]]

\* The sublists of k cards of a list, in its order.
RECURSIVE Sublists(_, _)
Sublists(d, k) ==
  IF k = 0 THEN {<<>>}
  ELSE IF Len(d) < k THEN {}
  ELSE {<<d[1]>> \o t : t \in Sublists(Tail(d), k - 1)} \cup Sublists(Tail(d), k)

\* The lists a caller hands over: every set of lo to hi cards of the deck, in
\* ascending and in descending order of the cards' indices.
Inputs(deck, lo, hi) ==
  LET all == UNION {Sublists(Ascending(deck), k) : k \in lo .. hi}
  IN all \cup {Reverse(l) : l \in all}


\* ---------------------------------------------------------------- one classification

\* The deck the classified sets are drawn from: the hearts of the HandRanks - 1
\* lowest cardinalities and the ace, and the SideRanks lowest cardinalities of
\* the next SideSuits suits.
HandRanks == 7
HandMin == 5
HandMax == 7
SideSuits == 3
SideRanks == 3

HandDeck ==
  {c \in CARDS :
     \/ /\ SuitOf(c) = 0
        /\ get_cardinality_strength(c) \in (0 .. (HandRanks - 2)) \cup {Ace}
     \/ /\ SuitOf(c) \in 1 .. SideSuits
        /\ get_cardinality_strength(c) < SideRanks}

InitHand ==
  /\ pc = "hand"
  /\ cards \in Inputs(HandDeck, HandMin, HandMax)
  /\ ret = None
  /\ first = EmptyTable
  /\ NoCache
  /\ NoCompare
  /\ NoMain

\* One call of get_best_hand on an empty cache.
HandCall ==
  /\ pc = "hand"
  /\ get_best_hand(cards)
  /\ pc' = "hand_done"
  /\ UNCHANGED <<loaded, table>>
  /\ UNCHANGED cmp_vars
  /\ UNCHANGED main_vars

NextHand == HandCall

SpecHand == InitHand /\ [][NextHand]_vars

\* ---------------------------------------------------------------- one get_straight

\* The deck get_straight's lists are drawn from: the first StraightDeck cards
\* of CARDS (all hearts, and the low diamonds).
StraightDeck == 16
StraightMax == 7

InitStraight ==
  /\ pc = "straight"
  /\ cards \in Inputs(0 .. (StraightDeck - 1), 1, StraightMax)
  /\ ret = None
  /\ first = EmptyTable
  /\ NoCache
  /\ NoCompare
  /\ NoMain

StraightCall ==
  /\ pc = "straight"
  /\ ret' = get_straight(cards)
  /\ pc' = "straight_done"
  /\ UNCHANGED <<cards, first>>
  /\ UNCHANGED cache_vars
  /\ UNCHANGED cmp_vars
  /\ UNCHANGED main_vars

NextStraight == StraightCall

SpecStraight == InitStraight /\ [][NextStraight]_vars

\* ---------------------------------------------------------------- one comparison

\* The hands compared are those of players on a board, as get_result builds
\* them: [*hand, *board]. The hole cards are two cards of the first CmpPool
\* cards of HolePool.
HolePool ==
  <<Card(Ace, Hearts), Card(King, Hearts), Card(Nine, Hearts), Card(Eight, Hearts),
    Card(Nine, Clubs), Card(Jack, Diamonds), Card(Jack, Spades), Card(Two, Hearts),
    Card(Two, Clubs), Card(King, Diamonds), Card(Ace, Clubs), Card(Seven, Hearts),
    Card(Four, Hearts), Card(Ten, Diamonds)>>

CmpPool == 12

CmpBoards ==
  {<<Card(Ten, Hearts), Card(Jack, Hearts), Card(Queen, Hearts),
     Card(Nine, Diamonds), Card(Nine, Spades)>>,
   <<Card(Three, Diamonds), Card(Six, Spades), Card(Eight, Clubs),
     Card(Jack, Clubs), Card(King, Clubs)>>}

CmpInputs ==
  {hole \o board :
     hole \in Sublists(SubSeq(HolePool, 1, Min(CmpPool, Len(HolePool))), 2),
     board \in CmpBoards}

\* The hands get_best_hand produces on them.
CmpHands == UNION {Classify(ROYAL_FLUSH, s) : s \in CmpInputs}

InitCmp ==
  /\ pc = "compare"
  /\ lhs_hand \in CmpHands
  /\ rhs_hand \in CmpHands
  /\ compared = None
  /\ NoCalls
  /\ NoCache
  /\ NoMain

CompareCall ==
  /\ pc = "compare"
  /\ compared' = compare_hands(lhs_hand, rhs_hand)
  /\ pc' = "compared"
  /\ UNCHANGED <<lhs_hand, rhs_hand>>
  /\ UNCHANGED call_vars
  /\ UNCHANGED cache_vars
  /\ UNCHANGED main_vars

NextCmp == CompareCall

SpecCmp == InitCmp /\ [][NextCmp]_vars

\* ---------------------------------------------------------------- calls on the cache

\* The card sets classified: all or all but one of the first CacheDeck cards of
\* a pool with one pair in it, so that a classification has more than one
\* possible result; each set in ascending and in descending order. The cache
\* takes MaxEntries entries.
CacheDeck == 6
MaxEntries == 2

CachePool ==
  <<Card(Two, Hearts), Card(Two, Diamonds), Card(Three, Hearts), Card(Four, Hearts),
    Card(Five, Hearts), Card(Seven, Hearts), Card(Eight, Hearts), Card(Nine, Spades)>>

CacheCards == Range(SubSeq(CachePool, 1, CacheDeck))

InitCache ==
  /\ pc = "calls"
  /\ NoCalls
  /\ NoCache
  /\ NoCompare
  /\ NoMain

CacheCall ==
  /\ pc = "calls"
  /\ \E s \in Inputs(CacheCards, CacheDeck - 1, Min(7, CacheDeck)) :
       /\ Key(s) \in DOMAIN CACHE \/ Cardinality(DOMAIN CACHE) < MaxEntries
       /\ get_best_hand(s)
  /\ UNCHANGED <<pc, loaded, table>>
  /\ UNCHANGED cmp_vars
  /\ UNCHANGED main_vars

NextCache == CacheCall

SpecCache == InitCache /\ [][NextCache]_vars

\* ---------------------------------------------------------------- validation

POSITIONS == <<"btn", "sb", "bb", "utg", "mp", "co">>

CONFIG_KEYS == POSITIONS \o <<"board", "dead">>

KeysOf(cfg) == {cfg[i][1] : i \in DOMAIN cfg}

\* The loop of validate_config over the cards of one key, from the j-th on:
\* the error found, or the cards seen so far.
RECURSIVE ValidateCards(_, _, _)
ValidateCards(values, j, seen_cards) ==
  IF j > Len(values) THEN [error |-> "", seen_cards |-> seen_cards]
  ELSE IF values[j] \notin CARDS
       THEN [error |-> "Uknown card", seen_cards |-> seen_cards]
       ELSE IF values[j] \in seen_cards
            THEN [error |-> "is a duplicate", seen_cards |-> seen_cards]
            ELSE ValidateCards(values, j + 1, seen_cards \cup {values[j]})

\* The loop of validate_config over config.items(), from the i-th on, and the
\* player count check after it: the error printed, or "".
RECURSIVE ValidateItems(_, _, _, _)
ValidateItems(cfg, i, seen_cards, count_players) ==
  IF i > Len(cfg)
  THEN IF count_players <= 1 THEN "Can't calculate equity" ELSE ""
  ELSE LET key == cfg[i][1]
           values == cfg[i][2]
           values_count == Len(values)
           checked == ValidateCards(values, 1, seen_cards)
       IN IF key \notin Range(CONFIG_KEYS) THEN "Config contains unknown key"
          ELSE IF key \in Range(POSITIONS) /\ values_count # 0 /\ values_count # 2
               THEN "must either have 0 or 2 cards"
          ELSE IF key \notin Range(POSITIONS) /\ key = "board" /\ values_count > 5
               THEN "'board' has too many cards"
          ELSE IF checked.error # "" THEN checked.error
          ELSE ValidateItems(cfg, i + 1, checked.seen_cards,
                 IF key \in Range(POSITIONS) /\ values_count = 2
                 THEN count_players + 1 ELSE count_players)

\* validate_config: the message of the error it exits on, "" when it returns.
validate_config(cfg) ==
  IF \E i \in DOMAIN CONFIG_KEYS : CONFIG_KEYS[i] \notin KeysOf(cfg)
  THEN "Config missing key"
  ELSE ValidateItems(cfg, 1, {}, 0)

\* ---------------------------------------------------------------- main, as it runs

\* A token that is no card.
UnknownCard == NumCardinalities * NumSuits

\* The config files the runs read: every key of CONFIG_KEYS in order, with the
\* hole cards, board and dead cards below, then with the last key left out or
\* with a key that is no config key added.
MainHoles ==
  [btn : {<<Card(Ace, Hearts), Card(King, Diamonds)>>, <<Card(Ace, Hearts)>>, <<>>},
   sb : {<<Card(Ace, Clubs), Card(King, Spades)>>,
         <<Card(Ace, Hearts), Card(King, Spades)>>, <<>>},
   bb : {<<>>, <<Card(Queen, Hearts), Card(Queen, Diamonds)>>,
         <<UnknownCard, Card(Queen, Diamonds)>>}]

MainBoards ==
  {SubSeq(<<Card(Two, Clubs), Card(Seven, Diamonds), Card(Nine, Spades),
            Card(Jack, Clubs), Card(Three, Hearts), Card(Four, Spades)>>, 1, n) :
     n \in {0, 3, 4, 5, 6}}

MainDead == {<<>>, <<Card(Five, Clubs)>>}

ConfigOf(holes, board, dead) ==
  <<<<"btn", holes.btn>>, <<"sb", holes.sb>>, <<"bb", holes.bb>>, <<"utg", <<>>>>,
    <<"mp", <<>>>>, <<"co", <<>>>>, <<"board", board>>, <<"dead", dead>>>>

MainConfigs ==
  UNION {{ConfigOf(holes, board, dead),
          SubSeq(ConfigOf(holes, board, dead), 1, 7),
          Append(ConfigOf(holes, board, dead), <<"hj", <<>>>>)} :
           holes \in MainHoles, board \in MainBoards, dead \in MainDead}

InitMain ==
  /\ pc = "main"
  /\ argc \in {1, 2}
  /\ config \in MainConfigs
  /\ exit_code = ""
  /\ alive = None
  /\ players = None
  /\ outcomes = 0
  /\ tied = 0
  /\ comb = None
  /\ result = None
  /\ reported = None
  /\ message = ""
  /\ NoCalls
  /\ NoCache
  /\ NoCompare

others_unchanged ==
  /\ UNCHANGED call_vars
  /\ UNCHANGED cmp_vars

\* main, lines 339-341: the usage check
CheckUsage ==
  /\ pc = "main"
  /\ IF argc # 2
     THEN /\ message' = "usage: python main.py <config>"
          /\ exit_code' = "exit(1)"
          /\ pc' = "exited"
     ELSE /\ pc' = "read_config"
          /\ UNCHANGED <<message, exit_code>>
  /\ UNCHANGED <<argc, config, alive, players, outcomes, tied, comb, result, reported>>
  /\ UNCHANGED cache_vars
  /\ others_unchanged

\* main, line 343: read_config, which validates and exits on the first error
ReadConfig ==
  /\ pc = "read_config"
  /\ IF validate_config(config) # ""
     THEN /\ message' = validate_config(config)
          /\ exit_code' = "exit(1)"
          /\ pc' = "exited"
     ELSE /\ pc' = "load_spots"
          /\ UNCHANGED <<message, exit_code>>
  /\ UNCHANGED <<argc, config, alive, players, outcomes, tied, comb, result, reported>>
  /\ UNCHANGED cache_vars
  /\ others_unchanged

\* main, lines 344-345: load_spots and hash_config, whose results main drops
LoadSpotsAndHash ==
  /\ pc = "load_spots"
  /\ pc' = "line_346"
  /\ UNCHANGED main_vars
  /\ UNCHANGED cache_vars
  /\ others_unchanged

\* main, line 346: exit(1), whatever the config
ExitAfterHash ==
  /\ pc = "line_346"
  /\ exit_code' = "exit(1)"
  /\ pc' = "exited"
  /\ UNCHANGED <<argc, config, alive, players, outcomes, tied, comb, result, reported,
                 message>>
  /\ UNCHANGED cache_vars
  /\ others_unchanged

NextMain == CheckUsage \/ ReadConfig \/ LoadSpotsAndHash \/ ExitAfterHash

SpecMain == InitMain /\ [][NextMain]_vars

\* ---------------------------------------------------------------- get_result and the equities

ValuesOf(cfg, key) == cfg[CHOOSE i \in DOMAIN cfg : cfg[i][1] = key][2]

\* alive_cards: CARDS minus every card of the config
alive_cards(cfg) == CARDS \ UNION {Range(cfg[i][2]) : i \in DOMAIN cfg}

\* main, lines 350-351: the positions that hold two cards, in the config's order
ActivePlayers(cfg) ==
  LET active == SelectSeq(cfg, LAMBDA item :
                            item[1] \in Range(POSITIONS) /\ Len(item[2]) = 2)
  IN [i \in DOMAIN active |->
        [pos |-> active[i][1], hand |-> active[i][2], wins |-> 0, ties |-> 0]]

\* The loop of get_result over the players, from the i-th on: the (position,
\* hand) list it can build, with the cache and the flag the calls leave.
RECURSIVE CollectHands(_, _, _, _)
CollectHands(board, plrs, i, acc) ==
  IF i > Len(plrs) THEN {acc}
  ELSE UNION {CollectHands(board, plrs, i + 1,
                [hands |-> Append(acc.hands, <<plrs[i].pos, o.hand>>),
                 cache |-> o.cache, dirty |-> o.dirty]) :
                o \in BestHand(acc.cache, acc.dirty, plrs[i].hand \o board)}

\* x put into a list of (position, hand) sorted by compare_hands, before the
\* first entry it is better than: the sort is stable.
RECURSIVE InsertByHand(_, _)
InsertByHand(sorted_hands, x) ==
  IF sorted_hands = <<>> THEN <<x>>
  ELSE IF compare_hands(x[2], Head(sorted_hands)[2]) < 0
       THEN <<x>> \o sorted_hands
       ELSE <<Head(sorted_hands)>> \o InsertByHand(Tail(sorted_hands), x)

\* sorted(hands, key=cmp_to_key(...compare_hands...))
RECURSIVE SortByHand(_)
SortByHand(hands) ==
  IF hands = <<>> THEN <<>>
  ELSE InsertByHand(SortByHand(SubSeq(hands, 1, Len(hands) - 1)), hands[Len(hands)])

\* The rank get_result gives the i-th of the sorted hands.
RECURSIVE RankOf(_, _)
RankOf(sorted_hands, i) ==
  IF i = 1 THEN 0
  ELSE RankOf(sorted_hands, i - 1)
       + (IF compare_hands(sorted_hands[i - 1][2], sorted_hands[i][2]) # 0 THEN 1 ELSE 0)

RankedResult(hands) ==
  LET sorted_hands == SortByHand(hands)
  IN [i \in DOMAIN sorted_hands |->
        [rank |-> RankOf(sorted_hands, i), player |-> sorted_hands[i][1],
         hand |-> sorted_hands[i][2]]]

\* get_result on a cache and a flag: the results it can return, with the cache
\* and the flag it leaves.
get_result(board, plrs, cache, dirty) ==
  {[result |-> RankedResult(c.hands), cache |-> c.cache, dirty |-> c.dirty] :
     c \in CollectHands(board, plrs, 1, [hands |-> <<>>, cache |-> cache, dirty |-> dirty])}

\* The combination itertools.combinations yields after the one at indices
\* (1-based) of a pool of n, None after the last.
NextCombination(indices, n) ==
  LET r == Len(indices)
      movable == {i \in 1 .. r : indices[i] # i + n - r}
  IN IF movable = {} THEN None
     ELSE LET i == SetMax(movable)
          IN [j \in 1 .. r |-> IF j < i THEN indices[j] ELSE indices[i] + 1 + (j - i)]

\* The first combination of r out of n, None when there is none.
FirstCombination(r, n) == IF r > n THEN None ELSE [j \in 1 .. r |-> j]

\* main, lines 362-366: the players after an outcome is tallied
Tallied(plrs, res) ==
  LET winners == {res[i].player : i \in {j \in DOMAIN res : res[j].rank = 0}}
  IN [i \in DOMAIN plrs |->
        IF plrs[i].pos \notin winners THEN plrs[i]
        ELSE IF Cardinality(winners) > 1
             THEN [plrs[i] EXCEPT !.ties = @ + 1]
             ELSE [plrs[i] EXCEPT !.wins = @ + 1]]

\* calculate_equities: each rate as the pair (count, total_outcomes) it divides
calculate_equities(plrs, total_outcomes) ==
  [i \in DOMAIN plrs |->
     [pos |-> plrs[i].pos, win |-> <<plrs[i].wins, total_outcomes>>,
      tie |-> <<plrs[i].ties, total_outcomes>>]]

\* ---------------------------------------------------------------- main, from line 347 on

\* Line 346 exits every run, so nothing after it runs in main as it is. To
\* settle what is claimed of the aggregation and of the write-back, this
\* specification runs the rest of main from line 347, on a validated config.

\* The configs: btn against sb, with or without bb, on a board that lacks at
\* most MaxMissing cards, with so many cards dead that none or AliveMax are
\* left alive.
MaxMissing == 1
AliveMax == 4

AggHoles ==
  [btn : {<<Card(Ace, Hearts), Card(King, Diamonds)>>},
   sb : {<<Card(Ace, Clubs), Card(King, Spades)>>,
         <<Card(Queen, Spades), Card(Queen, Clubs)>>},
   bb : {<<>>, <<Card(Seven, Hearts), Card(Seven, Diamonds)>>}]

AggBoardPool ==
  <<Card(Ten, Hearts), Card(Jack, Hearts), Card(Two, Clubs), Card(Nine, Diamonds),
    Card(Nine, Spades)>>

AggAlivePool ==
  <<Card(Queen, Diamonds), Card(King, Hearts), Card(Three, Hearts), Card(Seven, Clubs),
    Card(Four, Spades), Card(Ace, Diamonds)>>

AggDead(holes, board, n) ==
  Ascending(CARDS \ (Range(holes.btn) \cup Range(holes.sb) \cup Range(holes.bb)
                      \cup Range(board) \cup Range(SubSeq(AggAlivePool, 1, n))))

AggConfigs ==
  {ConfigOf(holes, board, AggDead(holes, board, n)) :
     holes \in AggHoles,
     board \in UNION {Sublists(AggBoardPool, k) : k \in (5 - MaxMissing) .. 5},
     n \in {0, AliveMax}}

\* The tables a run on cfg can find: the empty one, and the one with the
\* entries of cfg's hands on its board completed by the lowest alive cards.
AggTables(cfg) ==
  LET known_board == ValuesOf(cfg, "board")
      lowest == Ascending(alive_cards(cfg))
      missing == 5 - Len(known_board)
  IN IF Len(lowest) < missing THEN {EmptyTable}
     ELSE {EmptyTable,
           (CHOOSE o \in get_result(known_board \o SubSeq(lowest, 1, missing),
                                    ActivePlayers(cfg), EmptyTable, FALSE) : TRUE).cache}

InitAgg ==
  /\ pc = "line_347"
  /\ argc = 2
  /\ config \in AggConfigs
  /\ table \in AggTables(config)
  /\ exit_code = ""
  /\ alive = None
  /\ players = None
  /\ outcomes = 0
  /\ tied = 0
  /\ comb = None
  /\ result = None
  /\ reported = None
  /\ message = ""
  /\ CACHE = EmptyTable
  /\ SHOULD_WRITE_CACHE = FALSE
  /\ loaded = EmptyTable
  /\ NoCalls
  /\ NoCompare

\* main, line 347: alive, a set, which the loop iterates in an order Python does
\* not specify
AliveCards ==
  /\ pc = "line_347"
  /\ alive' \in {Ascending(alive_cards(config)), Reverse(Ascending(alive_cards(config)))}
  /\ pc' = "load_table"
  /\ UNCHANGED <<argc, config, exit_code, players, outcomes, tied, comb, result,
                 reported, message>>
  /\ UNCHANGED cache_vars
  /\ others_unchanged

\* load_table (main, line 349)
load_table ==
  /\ pc = "load_table"
  /\ CACHE' = table
  /\ SHOULD_WRITE_CACHE' = FALSE
  /\ loaded' = table
  /\ pc' = "line_350"
  /\ UNCHANGED table
  /\ UNCHANGED main_vars
  /\ others_unchanged

\* main, lines 350-355: players, outcomes, and the branch on the board
InitPlayers ==
  /\ pc = "line_350"
  /\ players' = ActivePlayers(config)
  /\ outcomes' = 0
  /\ IF Len(ValuesOf(config, "board")) = 5
     THEN /\ pc' = "complete_board"
          /\ comb' = None
     ELSE /\ comb' = FirstCombination(5 - Len(ValuesOf(config, "board")), Len(alive))
          /\ pc' = IF comb' = None THEN "equities" ELSE "loop"
  /\ UNCHANGED <<argc, config, exit_code, alive, tied, result, reported, message>>
  /\ UNCHANGED cache_vars
  /\ others_unchanged

\* main, lines 356-358: the complete board
CompleteBoard ==
  /\ pc = "complete_board"
  /\ \E o \in get_result(ValuesOf(config, "board"), players, CACHE, SHOULD_WRITE_CACHE) :
       /\ result' = o.result
       /\ CACHE' = o.cache
       /\ SHOULD_WRITE_CACHE' = o.dirty
  /\ outcomes' = 1
  /\ pc' = "equities"
  /\ UNCHANGED <<argc, config, exit_code, alive, players, tied, comb, reported, message>>
  /\ UNCHANGED <<loaded, table>>
  /\ others_unchanged

\* main, lines 360-367: one pass of the loop over the combinations
LoopPass ==
  /\ pc = "loop"
  /\ \E o \in get_result(ValuesOf(config, "board") \o [j \in DOMAIN comb |-> alive[comb[j]]],
                         players, CACHE, SHOULD_WRITE_CACHE) :
       /\ result' = o.result
       /\ CACHE' = o.cache
       /\ SHOULD_WRITE_CACHE' = o.dirty
       /\ players' = Tallied(players, o.result)
       /\ tied' = IF Cardinality({j \in DOMAIN o.result : o.result[j].rank = 0}) > 1
                  THEN tied + 1 ELSE tied
  /\ outcomes' = outcomes + 1
  /\ comb' = NextCombination(comb, Len(alive))
  /\ pc' = IF comb' = None THEN "equities" ELSE "loop"
  /\ UNCHANGED <<argc, config, exit_code, alive, reported, message>>
  /\ UNCHANGED <<loaded, table>>
  /\ others_unchanged

\* main, lines 369-372: the equities, computed and printed
ReportEquities ==
  /\ pc = "equities"
  /\ IF outcomes = 0
     THEN /\ exit_code' = "ZeroDivisionError"
          /\ pc' = "exited"
          /\ UNCHANGED reported
     ELSE /\ reported' = calculate_equities(players, outcomes)
          /\ pc' = "line_374"
          /\ UNCHANGED exit_code
  /\ UNCHANGED <<argc, config, alive, players, outcomes, tied, comb, result, message>>
  /\ UNCHANGED cache_vars
  /\ others_unchanged

\* store_tables: the table.json it leaves of the file it finds. main never
\* calls it.
store_tables(file) == IF ~SHOULD_WRITE_CACHE THEN file ELSE CACHE

\* main, line 374: store_table(), a name the module does not define (it
\* defines store_tables): the call raises NameError and the run ends with
\* nothing written.
StoreTable ==
  /\ pc = "line_374"
  /\ exit_code' = "NameError"
  /\ pc' = "exited"
  /\ UNCHANGED <<argc, config, alive, players, outcomes, tied, comb, result, reported,
                 message>>
  /\ UNCHANGED cache_vars
  /\ others_unchanged

NextAgg ==
  \/ AliveCards
  \/ load_table
  \/ InitPlayers
  \/ CompleteBoard
  \/ LoopPass
  \/ ReportEquities
  \/ StoreTable

SpecAgg == InitAgg /\ [][NextAgg]_vars

\* ---------------------------------------------------------------- what poker calls a straight

CardinalitiesOf(S) == {get_cardinality_strength(c) : c \in S}

\* The cardinalities of the straight topped by t, strongest first; the wheel is
\* topped by the five and ends with the ace.
StraightOf(t) == [i \in 1 .. 5 |-> IF t = Five /\ i = 5 THEN Ace ELSE t - i + 1]

\* The cardinalities that top a straight held by a card set.
StraightTops(S) ==
  {t \in Five .. Ace : Range(StraightOf(t)) \subseteq CardinalitiesOf(S)}

SuitCards(S, u) == {c \in S : SuitOf(c) = u}

HoldsStraightFlush(S) ==
  \E u \in 0 .. (NumSuits - 1) : StraightTops(SuitCards(S, u)) # {}

CountOf(S, k) == Cardinality({c \in S : get_cardinality_strength(c) = k})

NoDuplicates(s) == Cardinality(Range(s)) = Len(s)

\* ---------------------------------------------------------------- claims on one classification

\* C1: for every duplicate-free set of 5, 6 or 7 cards, get_best_hand returns a
\* hand whose 'cards' are exactly 5 cards, no card twice, all of them cards of
\* the input.
C1_FiveCardsOfTheInput ==
  pc = "hand_done" =>
    /\ Len(ret.cards) = 5
    /\ NoDuplicates(ret.cards)
    /\ Range(ret.cards) \subseteq Range(cards)

\* C2: a set in which some suit holds at least 5 cards and which holds no
\* straight flush is classified FLUSH, with the 5 strongest cards of that suit
\* in descending order.
C2_FlushOfFiveStrongest ==
  pc = "hand_done" =>
    \A u \in 0 .. (NumSuits - 1) :
      (/\ Cardinality(SuitCards(Range(cards), u)) >= 5
       /\ ~HoldsStraightFlush(Range(cards)))
      => /\ ret.id = FLUSH
         /\ ret.cards = Prefix(SortByStrength(Ascending(SuitCards(Range(cards), u))), 5)

\* The cardinalities a full house can be made of: its triple and its pair.
Triples(S) == {k \in 0 .. (NumCardinalities - 1) : CountOf(S, k) = 3}

PairsBeside(S, k3) ==
  {k \in 0 .. (NumCardinalities - 1) : k # k3 /\ CountOf(S, k) >= 2}

\* C3: a set without four of a kind in which a cardinality occurs three times
\* and another at least twice is classified FULL_HOUSE: three cards of the
\* strongest triple, then two of the strongest other cardinality held twice or
\* more (the lower triple, when the set holds two).
C3_FullHouse ==
  pc = "hand_done" =>
    LET S == Range(cards)
        k3 == SetMax(Triples(S))
    IN (/\ \A k \in 0 .. (NumCardinalities - 1) : CountOf(S, k) < 4
        /\ Triples(S) # {}
        /\ PairsBeside(S, k3) # {})
       => /\ ret.id = FULL_HOUSE
          /\ Len(ret.cards) = 5
          /\ \A i \in 1 .. 3 : get_cardinality_strength(ret.cards[i]) = k3
          /\ \A i \in 4 .. 5 :
               get_cardinality_strength(ret.cards[i]) = SetMax(PairsBeside(S, k3))

\* ---------------------------------------------------------------- claims on get_straight

\* C4: get_straight returns a result exactly when the list holds a straight
\* (the wheel included); the result is five cards of the list, of the
\* cardinalities of the strongest straight held, strongest first, the wheel as
\* 5, 4, 3, 2, A.
C4_BestStraight ==
  pc = "straight_done" =>
    LET tops == StraightTops(Range(cards))
    IN IF tops = {} THEN ret = None
       ELSE /\ ret # None
            /\ Len(ret) = 5
            /\ Range(ret) \subseteq Range(cards)
            /\ [i \in 1 .. 5 |-> get_cardinality_strength(ret[i])]
                 = StraightOf(SetMax(tops))

\* A 7-card list with a doubled cardinality whose only straight is the wheel.
C4_Witness ==
  /\ pc = "straight_done"
  /\ Len(cards) = 7
  /\ Cardinality(CardinalitiesOf(Range(cards))) < 7
  /\ ret # None
  /\ get_cardinality_strength(ret[1]) = Five
  /\ get_cardinality_strength(ret[5]) = Ace

\* ---------------------------------------------------------------- claims on compare_hands

Strengths(hand) == [i \in 1 .. 5 |-> get_cardinality_strength(hand.cards[i])]

\* C5: compare_hands returns 0 only for a true tie, the same category and the
\* same cardinality at each of the first five positions; and of two hands of
\* one category the one with the stronger card at index 0 wins.
C5_EqualOnlyForTrueTies ==
  pc = "compared" =>
    /\ compared = 0 =>
         /\ lhs_hand.id = rhs_hand.id
         /\ Strengths(lhs_hand) = Strengths(rhs_hand)
    /\ (/\ lhs_hand.id = rhs_hand.id
        /\ Strengths(lhs_hand)[1] > Strengths(rhs_hand)[1]) => compared = -1

NotWorse(a, b) == compare_hands(a, b) <= 0

\* C6: compare_hands is a consistent total preorder on the hands get_best_hand
\* produces: compare_hands(a, b) = -compare_hands(b, a), compare_hands(a, a) = 0,
\* "not worse" is transitive, and the hand of the higher category is the better.
C6_TotalOrder ==
  pc = "compared" =>
    /\ compared \in {-1, 0, 1}
    /\ compared = 0 - compare_hands(rhs_hand, lhs_hand)
    /\ compare_hands(lhs_hand, lhs_hand) = 0
    /\ lhs_hand.id > rhs_hand.id => compared = -1
    /\ lhs_hand.id < rhs_hand.id => compared = 1
    /\ \A third \in CmpHands :
         /\ (compared <= 0 /\ NotWorse(rhs_hand, third)) => NotWorse(lhs_hand, third)
         /\ (compared = 0 /\ compare_hands(rhs_hand, third) = 0)
              => compare_hands(lhs_hand, third) = 0

\* Three hands of one category in a strict chain, decided by tiebreakers.
C6_Witness ==
  /\ pc = "compared"
  /\ compared = -1
  /\ lhs_hand.id = rhs_hand.id
  /\ \E third \in CmpHands :
       /\ third.id = rhs_hand.id
       /\ compare_hands(rhs_hand, third) = -1
       /\ compare_hands(lhs_hand, third) = -1

\* ---------------------------------------------------------------- claims on the cache

\* C8: a call of get_best_hand on a card set classified before, its cards in
\* any order, returns what the first call returned and leaves CACHE and
\* SHOULD_WRITE_CACHE as they were.
C8_CacheIdempotence ==
  [][(pc = "calls" /\ Key(cards') \in DOMAIN first)
       => /\ ret' = first[Key(cards')].hand
          /\ CACHE' = CACHE
          /\ SHOULD_WRITE_CACHE' = SHOULD_WRITE_CACHE]_vars

\* A later call that hands the cards of an earlier one over in another order,
\* with another entry in the cache, and gets the record of the earlier call.
C8_Witness ==
  /\ pc = "calls"
  /\ Cardinality(DOMAIN CACHE) = 2
  /\ Key(cards) \in DOMAIN first
  /\ cards # first[Key(cards)].cards
  /\ ret = first[Key(cards)].hand

\* ---------------------------------------------------------------- claims on main

\* C10: a run on a config that passes validation does not stop before it has
\* enumerated the run-outs and reported the equities; a run ends without a
\* report only when validation (or the usage check) fails.
C10_ValidRunsReport ==
  (pc = "exited" /\ reported = None) => (argc # 2 \/ validate_config(config) # "")

\* ---------------------------------------------------------------- claims on the aggregation

RECURSIVE SumOf(_, _)
SumOf(plrs, i) == IF i > Len(plrs) THEN 0 ELSE plrs[i].wins + SumOf(plrs, i + 1)

\* C7: when the aggregation has ended, every counted outcome has given one win
\* to one player or one tie to each player of one tie group: the wins of all
\* players and the tied outcomes add up to the outcome count, on a complete
\* board (one outcome) as on any other.
C7_EquityConservation ==
  pc \in {"equities", "line_374"} =>
    /\ SumOf(players, 1) + tied = outcomes
    /\ \A i \in DOMAIN players : players[i].wins + players[i].ties <= outcomes
    /\ outcomes >= 1 => \E i \in DOMAIN players : players[i].wins + players[i].ties >= 1

\* C9: SHOULD_WRITE_CACHE is true exactly when the cache holds a key that was
\* not loaded; a run of hits only writes nothing; a run that added an entry has
\* written the cache to the table when the process ends.
C9_WriteBackIffNew ==
  /\ pc \in {"line_350", "complete_board", "loop", "equities", "line_374", "exited"}
       => (SHOULD_WRITE_CACHE <=> ~(DOMAIN CACHE \subseteq DOMAIN loaded))
  /\ pc = "exited" => table = store_tables(loaded)

====
